---- MODULE Spec2Model ----
(***************************************************************************)
(* Model of the steam_train_fuel crate: the Train value with its two       *)
(* transitions (travel, stow_fuel), and the simulate driver that applies   *)
(* the commands a Strategy decides.                                        *)
(*                                                                         *)
(* usize and isize keep a width: UsizeBits stands for the 64 bits of the   *)
(* target, scaled down.  Rust arithmetic that leaves the range panics when *)
(* the build has overflow checks (the dev and test profiles) and wraps     *)
(* when it has none (the release profile); overflow_checks is the profile. *)
(***************************************************************************)
EXTENDS Integers, Sequences, FiniteSets, TLC

VARIABLES
    goal,             \* GoalSpec: [capacity, destination]
    overflow_checks,  \* build profile: TRUE = arithmetic overflow panics
    state,            \* the current Train value
    last,             \* the last call made on the Train API and its result
    calls,            \* number of calls made on the Train API
    pc,               \* "running", "returned", "panicked"
    iter,             \* simulate: iterations of `for _ in 0..20` started
    commands,         \* simulate: Vec<Command>
    states,           \* simulate: Vec<Train>, the live history
    strategy,         \* the Strategy: decide calls made, commands returned
    summary           \* the SimulationSummary simulate returned

vars == <<goal, overflow_checks, state, last, calls, pc, iter, commands, states,
          strategy, summary>>

-----------------------------------------------------------------------------
(* Bounds of the model *)

UsizeBits == 5
MaxCalls == 6
MaxDistance == 2
MaxAmount == 1
MaxCapacity == 5

-----------------------------------------------------------------------------
(* Machine integers *)

UsizeSize == 2 ^ UsizeBits
UsizeMax == UsizeSize - 1
IsizeMax == (2 ^ (UsizeBits - 1)) - 1
IsizeMin == 0 - (2 ^ (UsizeBits - 1))

\* the value an isize holds after wrapping arithmetic
WrapIsize(x) ==
    LET m == x % UsizeSize IN IF m > IsizeMax THEN m - UsizeSize ELSE m

\* `x as isize` for a usize x
AsIsize(x) == WrapIsize(x)

\* result of a usize operation whose mathematical value is x
CheckedUsize(x) == [val |-> x % UsizeSize, ovf |-> x < 0 \/ x > UsizeMax]

\* result of an isize operation whose mathematical value is x
CheckedIsize(x) == [val |-> WrapIsize(x), ovf |-> x < IsizeMin \/ x > IsizeMax]

-----------------------------------------------------------------------------
(* Error values: pub type Error = &'static str *)

MovedBeyondDepot == "moved beyond depot"
FuelExhausted == "used more fuel than was in the tank"
StowAtDepot == "cannot stow fuel at the depot"
InsufficientFuelToStow == "stowed more fuel than was in the tank"
StrategyExhausted == "strategy returned None"
IterationCapExceeded == "simulation max iteration couter reached"

TransitionErrors ==
    {MovedBeyondDepot, FuelExhausted, StowAtDepot, InsufficientFuelToStow}

\* Result<Train, Error>, or the panic that unwinds out of the call
Ok(train) == [tag |-> "Ok", train |-> train, err |-> ""]
Err(self, e) == [tag |-> "Err", train |-> self, err |-> e]
Panic(self) == [tag |-> "Panic", train |-> self, err |-> ""]

-----------------------------------------------------------------------------
(* GoalSpec and Train *)

\* mutant: only a destination short of the capacity is refused
GoalSpecNewAllowsEqual(capacity, destination) ==
    IF destination < capacity
    THEN [tag |-> "Panic", spec |-> [capacity |-> 0, destination |-> 0]]
    ELSE [tag |-> "Ok",
          spec |-> [capacity |-> capacity, destination |-> destination]]

GoalSpecNew(capacity, destination) ==
    IF destination <= capacity
    THEN [tag |-> "Panic", spec |-> [capacity |-> 0, destination |-> 0]]
    ELSE [tag |-> "Ok",
          spec |-> [capacity |-> capacity, destination |-> destination]]

EmptyStashes == [l \in {} |-> 0]

TrainFrom(spec) ==
    [spec |-> spec, location |-> 0, fuel |-> spec.capacity,
     stashes |-> EmptyStashes]

\* HashMap::remove
StashesRemove(stashes, location) ==
    [l \in (DOMAIN stashes) \ {location} |-> stashes[l]]

\* HashMap::insert of the entry's new value
StashesInsert(stashes, location, amount) ==
    [l \in (DOMAIN stashes) \cup {location} |->
        IF l = location THEN amount ELSE stashes[l]]

Abs(x) == IF x < 0 THEN 0 - x ELSE x

\* mutant: the goal counts as met once the train is at or past it
meets_goal_or_beyond(self, g) == self.location >= g.destination

meets_goal(self, g) == self.location = g.destination

\* mutant: an empty tank does not stop the train (a saturating subtraction)
travel_on_empty(self, distance) ==
    LET loc == CheckedIsize(AsIsize(self.location) + distance) IN
    IF loc.ovf /\ overflow_checks THEN Panic(self)
    ELSE IF loc.val < 0 THEN Err(self, MovedBeyondDepot)
    ELSE
    LET location == loc.val
        abs == CheckedIsize(Abs(distance))
    IN
    IF abs.ovf /\ overflow_checks THEN Panic(self)
    ELSE
    LET f == CheckedIsize(AsIsize(self.fuel) - abs.val)
        left == IF f.val < 0 THEN 0 ELSE f.val
    IN
    IF f.ovf /\ overflow_checks THEN Panic(self)
    ELSE
    IF location \in DOMAIN self.stashes
    THEN LET sum == CheckedUsize(left + self.stashes[location]) IN
         IF sum.ovf /\ overflow_checks THEN Panic(self)
         ELSE Ok([self EXCEPT !.location = location, !.fuel = sum.val,
                     !.stashes = StashesRemove(self.stashes, location)])
    ELSE IF location = 0
    THEN Ok([self EXCEPT !.location = location,
                         !.fuel = self.spec.capacity])
    ELSE Ok([self EXCEPT !.location = location, !.fuel = left])

travel(self, distance) ==
    LET loc == CheckedIsize(AsIsize(self.location) + distance) IN
    IF loc.ovf /\ overflow_checks THEN Panic(self)
    ELSE IF loc.val < 0 THEN Err(self, MovedBeyondDepot)
    ELSE
    LET location == loc.val
        abs == CheckedIsize(Abs(distance))
    IN
    IF abs.ovf /\ overflow_checks THEN Panic(self)
    ELSE
    LET f == CheckedIsize(AsIsize(self.fuel) - abs.val) IN
    IF f.ovf /\ overflow_checks THEN Panic(self)
    ELSE IF f.val < 0 THEN Err(self, FuelExhausted)
    ELSE
    IF location \in DOMAIN self.stashes
    THEN LET sum == CheckedUsize(f.val + self.stashes[location]) IN
         IF sum.ovf /\ overflow_checks THEN Panic(self)
         ELSE Ok([self EXCEPT !.location = location, !.fuel = sum.val,
                     !.stashes = StashesRemove(self.stashes, location)])
    ELSE IF location = 0
    THEN Ok([self EXCEPT !.location = location,
                         !.fuel = self.spec.capacity])
    ELSE Ok([self EXCEPT !.location = location, !.fuel = f.val])

\* mutant: the tank is debited before the depot is checked
stow_fuel_checks_depot_late(self, amount) ==
    LET f == CheckedUsize(self.fuel - amount) IN
    IF f.ovf /\ overflow_checks THEN Panic(self)
    ELSE IF self.location = 0 THEN Err(self, StowAtDepot)
    ELSE
    LET old == IF self.location \in DOMAIN self.stashes
               THEN self.stashes[self.location] ELSE 0
        sum == CheckedUsize(old + amount)
    IN
    IF sum.ovf /\ overflow_checks THEN Panic(self)
    ELSE Ok([self EXCEPT !.fuel = f.val,
                !.stashes = StashesInsert(self.stashes, self.location,
                                          sum.val)])

\* mutant: the depot is not checked
stow_fuel_anywhere(self, amount) ==
    LET f == CheckedUsize(self.fuel - amount) IN
    IF f.ovf /\ overflow_checks THEN Panic(self)
    ELSE
    LET old == IF self.location \in DOMAIN self.stashes
               THEN self.stashes[self.location] ELSE 0
        sum == CheckedUsize(old + amount)
    IN
    IF sum.ovf /\ overflow_checks THEN Panic(self)
    ELSE Ok([self EXCEPT !.fuel = f.val,
                !.stashes = StashesInsert(self.stashes, self.location,
                                          sum.val)])

stow_fuel(self, amount) ==
    IF self.location = 0 THEN Err(self, StowAtDepot)
    ELSE
    LET f == CheckedUsize(self.fuel - amount) IN
    IF f.ovf /\ overflow_checks THEN Panic(self)
    ELSE
    \* usize::try_into::<usize>() cannot fail: the map_err arm is dead
    LET old == IF self.location \in DOMAIN self.stashes
               THEN self.stashes[self.location] ELSE 0
        sum == CheckedUsize(old + amount)
    IN
    IF sum.ovf /\ overflow_checks THEN Panic(self)
    ELSE Ok([self EXCEPT !.fuel = f.val,
                !.stashes = StashesInsert(self.stashes, self.location,
                                          sum.val)])

\* enum Command
Travel(distance) == [kind |-> "Travel", arg |-> distance]
StowFuel(amount) == [kind |-> "StowFuel", arg |-> amount]

update(self, command) ==
    IF command.kind = "Travel" THEN travel(self, command.arg)
    ELSE stow_fuel(self, command.arg)

-----------------------------------------------------------------------------
(* Inputs *)

Distances == (0 - MaxDistance) .. MaxDistance
Amounts == (0 .. MaxAmount) \cup {UsizeMax}

\* GoalSpec::new(500, 600) of the documentation, in units of 100
ScenarioGoal == GoalSpecNew(5, 6).spec

\* a goal whose capacity does not fit an isize
HugeGoal == GoalSpecNew(IsizeMax + 1, IsizeMax + 2).spec

\* (capacity, destination) pairs given to Train::new / GoalSpec::new
Goals == {ScenarioGoal, HugeGoal}

\* the commands of the documented scenario, in units of 100, and the
\* longest travel an isize can ask for
SimCommands ==
    {Travel(2), StowFuel(1), Travel(0 - 2), Travel(4), Travel(IsizeMin)}

NoCall == [op |-> "new", arg |-> 0, self |-> TrainFrom(ScenarioGoal),
           res |-> Ok(TrainFrom(ScenarioGoal))]

NoSummary == [goal |-> ScenarioGoal, final_state |-> TrainFrom(ScenarioGoal),
              result |-> "unset", commands |-> <<>>, states |-> <<>>]

NoStrategy == [calls |-> 0, returned |-> <<>>]

-----------------------------------------------------------------------------
(* The Train API: any sequence of calls on the latest Train value *)

Init ==
    /\ goal \in Goals
    /\ overflow_checks \in BOOLEAN
    /\ state = TrainFrom(goal)
    /\ last = NoCall
    /\ calls = 0
    /\ pc = "running"
    /\ iter = 0
    /\ commands = <<>>
    /\ states = <<>>
    /\ strategy = NoStrategy
    /\ summary = NoSummary

Call(op, arg, res) ==
    /\ pc = "running"
    /\ calls < MaxCalls
    /\ calls' = calls + 1
    /\ last' = [op |-> op, arg |-> arg, self |-> state, res |-> res]
    /\ state' = IF res.tag = "Ok" THEN res.train ELSE state
    /\ pc' = IF res.tag = "Panic" THEN "panicked" ELSE "running"
    /\ UNCHANGED <<goal, overflow_checks, iter, commands, states, strategy,
                   summary>>

TravelCall(distance) == Call("travel", distance, travel(state, distance))

StowFuelCall(amount) == Call("stow_fuel", amount, stow_fuel(state, amount))

Next ==
    \/ \E distance \in Distances : TravelCall(distance)
    \/ \E amount \in Amounts : StowFuelCall(amount)

Spec == Init /\ [][Next]_vars

-----------------------------------------------------------------------------
(* SimulationSummary *)

SimulationSummaryNew(g, final_state, result, cmds) ==
    [goal |-> g, final_state |-> final_state, result |-> result,
     commands |-> cmds, states |-> <<>>]

\* the loop of SimulationSummary::states: each state is pushed once the
\* command applied to it has been unwrapped
RECURSIVE ReplayFrom(_, _, _)
ReplayFrom(train, cmds, acc) ==
    IF cmds = <<>> THEN [tag |-> "Ok", states |-> Append(acc, train)]
    ELSE LET r == update(train, Head(cmds)) IN
         IF r.tag # "Ok" THEN [tag |-> "Panic", states |-> acc]
         ELSE ReplayFrom(r.train, Tail(cmds), Append(acc, train))

\* mutant: the push of the last state after the loop is missing
SummaryStatesNoFinalPush(s) ==
    LET r == ReplayFrom(TrainFrom(s.goal), s.commands, <<>>) IN
    [r EXCEPT !.states = SubSeq(@, 1, Len(@) - 1)]

\* SimulationSummary::states
SummaryStates(s) == ReplayFrom(TrainFrom(s.goal), s.commands, <<>>)

\* the closure mapped over the trace: `distance.abs() as usize`, or 0
TravelCost(c) ==
    IF c.kind = "Travel"
    THEN LET a == CheckedIsize(Abs(c.arg)) IN
         [val |-> a.val % UsizeSize, ovf |-> a.ovf]
    ELSE [val |-> 0, ovf |-> FALSE]

\* Iterator::sum over usize: a left fold from 0 whose additions follow the
\* overflow checks of the build
RECURSIVE SumTravel(_, _)
SumTravel(cmds, acc) ==
    IF cmds = <<>> THEN [tag |-> "Ok", val |-> acc]
    ELSE LET cost == TravelCost(Head(cmds))
             sum == CheckedUsize(acc + cost.val)
         IN
         IF (cost.ovf \/ sum.ovf) /\ overflow_checks
         THEN [tag |-> "Panic", val |-> 0]
         ELSE SumTravel(Tail(cmds), sum.val)

\* SimulationSummary::fuel_used
fuel_used(s) == SumTravel(s.commands, 0)

-----------------------------------------------------------------------------
(* simulate: one action per pass through the body of `for _ in 0..20` *)

\* mutant: the range is inclusive, `0..=20`
IterationCapInclusive == 20 + 1

IterationCap == 20

SimInit ==
    /\ goal = ScenarioGoal
    /\ overflow_checks \in BOOLEAN
    /\ state = TrainFrom(goal)
    /\ last = NoCall
    /\ calls = 0
    /\ pc = "running"
    /\ iter = 0
    /\ commands = <<>>
    /\ states = <<>>
    /\ strategy = NoStrategy
    /\ summary = NoSummary

InLoop ==
    /\ pc = "running"
    /\ iter < IterationCap

\* states.push(state.clone()) at the head of the body
PushState ==
    /\ iter' = iter + 1
    /\ states' = Append(states, state)

\* the goal is met: build the summary and assert its states() against the
\* live history
ReachGoal ==
    /\ InLoop
    /\ meets_goal(state, goal)
    /\ PushState
    /\ LET made == SimulationSummaryNew(goal, state, "Ok", commands)
           replay == SummaryStates(made)
           history == Append(states, state)
       IN
       /\ summary' = IF replay.tag = "Ok"
                     THEN [made EXCEPT !.states = replay.states]
                     ELSE made
       /\ pc' = IF replay.tag # "Ok" THEN "panicked"
                ELSE IF replay.states = history THEN "returned"
                ELSE "assert_failed"
    /\ UNCHANGED <<goal, overflow_checks, state, last, calls, commands,
                   strategy>>

\* Ok(new_state) => state = new_state
UpdateOk(pushed, new_state) ==
    /\ commands' = pushed
    /\ state' = new_state
    /\ pc' = "running"
    /\ UNCHANGED summary

\* mutant: the command is pushed only once it has been applied
UpdateErrLosesCommand(pushed, e) ==
    /\ commands' = commands
    /\ summary' = SimulationSummaryNew(goal, state, e, commands)
    /\ pc' = "returned"
    /\ UNCHANGED state

\* Err(e) => return SimulationSummary::new(goal, state, Err(e), commands)
UpdateErr(pushed, e) ==
    /\ commands' = pushed
    /\ summary' = SimulationSummaryNew(goal, state, e, pushed)
    /\ pc' = "returned"
    /\ UNCHANGED state

\* arithmetic overflow in update unwinds out of simulate
UpdateUnwinds(pushed) ==
    /\ commands' = pushed
    /\ pc' = "panicked"
    /\ UNCHANGED <<state, summary>>

\* the strategy decides Some(command)
DecideSome(command) ==
    /\ InLoop
    /\ ~ meets_goal(state, goal)
    /\ PushState
    /\ strategy' = [calls |-> strategy.calls + 1,
                    returned |-> Append(strategy.returned, command)]
    /\ LET pushed == Append(commands, command)
           r == update(state, command)
       IN
       IF r.tag = "Ok" THEN UpdateOk(pushed, r.train)
       ELSE IF r.tag = "Err" THEN UpdateErr(pushed, r.err)
       ELSE UpdateUnwinds(pushed)
    /\ UNCHANGED <<goal, overflow_checks, last, calls>>

\* mutant: the summary carries the train as constructed, not the current one
DecideNoneFromStart ==
    /\ InLoop
    /\ ~ meets_goal(state, goal)
    /\ PushState
    /\ strategy' = [strategy EXCEPT !.calls = @ + 1]
    /\ summary' = SimulationSummaryNew(goal, TrainFrom(goal),
                                       StrategyExhausted, commands)
    /\ pc' = "returned"
    /\ UNCHANGED <<goal, overflow_checks, state, last, calls, commands>>

\* the strategy decides None
DecideNone ==
    /\ InLoop
    /\ ~ meets_goal(state, goal)
    /\ PushState
    /\ strategy' = [strategy EXCEPT !.calls = @ + 1]
    /\ summary' = SimulationSummaryNew(goal, state, StrategyExhausted, commands)
    /\ pc' = "returned"
    /\ UNCHANGED <<goal, overflow_checks, state, last, calls, commands>>

\* the loop has run all its iterations
LoopExit ==
    /\ pc = "running"
    /\ iter >= IterationCap
    /\ summary' = SimulationSummaryNew(goal, state, IterationCapExceeded,
                                       commands)
    /\ pc' = "returned"
    /\ UNCHANGED <<goal, overflow_checks, state, last, calls, iter, commands,
                   states, strategy>>

SimNext ==
    \/ ReachGoal
    \/ \E command \in SimCommands : DecideSome(command)
    \/ DecideNone
    \/ LoopExit

SimSpec == SimInit /\ [][SimNext]_vars

-----------------------------------------------------------------------------
(* Train::new: construction from any pair of arguments *)

\* stands for the train while there is none
NoTrain == TrainFrom([capacity |-> 0, destination |-> 0])

\* the arguments of Train::new
Capacities == (0 .. MaxCapacity) \cup {UsizeMax}
Destinations == (0 .. MaxCapacity + 1) \cup {UsizeMax}

\* before the call: `goal` holds the arguments
NewInit ==
    /\ goal \in [capacity : Capacities, destination : Destinations]
    /\ overflow_checks \in BOOLEAN
    /\ state = NoTrain
    /\ last = NoCall
    /\ calls = 0
    /\ pc = "new"
    /\ iter = 0
    /\ commands = <<>>
    /\ states = <<>>
    /\ strategy = NoStrategy
    /\ summary = NoSummary

\* Train::new(capacity, destination)
TrainNew ==
    /\ pc = "new"
    /\ LET made == GoalSpecNew(goal.capacity, goal.destination) IN
       IF made.tag = "Ok"
       THEN /\ state' = TrainFrom(made.spec)
            /\ last' = [op |-> "new", arg |-> 0,
                        self |-> TrainFrom(made.spec),
                        res |-> Ok(TrainFrom(made.spec))]
            /\ pc' = "running"
       ELSE /\ pc' = "panicked"
            /\ UNCHANGED <<state, last>>
    /\ UNCHANGED <<goal, overflow_checks, calls, iter, commands, states,
                   strategy, summary>>

NewNext == TrainNew

NewSpec == NewInit /\ [][NewNext]_vars

-----------------------------------------------------------------------------
(* Properties of the Train API *)

StashAt(train, l) == IF l \in DOMAIN train.stashes THEN train.stashes[l] ELSE 0

OtherStashesUnchanged(before, after, l) ==
    /\ (DOMAIN before.stashes) \ {l} = (DOMAIN after.stashes) \ {l}
    /\ \A k \in (DOMAIN before.stashes) \ {l} :
           after.stashes[k] = before.stashes[k]

\* C1: travel(d) fails with MovedBeyondDepot exactly when location + d < 0;
\* otherwise it fails with FuelExhausted exactly when |d| > fuel; otherwise
\* it succeeds with new location = location + d.
C1_TravelOutcome ==
    last.op = "travel" =>
        IF last.self.location + last.arg < 0
        THEN last.res = Err(last.self, MovedBeyondDepot)
        ELSE IF Abs(last.arg) > last.self.fuel
        THEN last.res = Err(last.self, FuelExhausted)
        ELSE /\ last.res.tag = "Ok"
             /\ last.res.train.location = last.self.location + last.arg

\* C2: a successful travel(d) arriving at L picks up the whole stash at L
\* (fuel - |d| + stash, entry removed), else refuels to capacity at L = 0,
\* else keeps fuel - |d|; every stash entry elsewhere is unchanged.
C2_TravelArrival ==
    (last.op = "travel" /\ last.res.tag = "Ok") =>
        LET L == last.res.train.location
            spent == last.self.fuel - Abs(last.arg)
        IN
        /\ IF L \in DOMAIN last.self.stashes
           THEN /\ last.res.train.fuel = spent + last.self.stashes[L]
                /\ L \notin DOMAIN last.res.train.stashes
           ELSE IF L = 0
           THEN last.res.train.fuel = last.self.spec.capacity
           ELSE last.res.train.fuel = spent
        /\ OtherStashesUnchanged(last.self, last.res.train, L)

\* C3: stow_fuel(amount) at L != 0 with amount <= fuel succeeds with
\* fuel - amount in the tank and (previous stash at L, or 0) + amount at L;
\* location and the stashes elsewhere are unchanged.
C3_StowOutcome ==
    (last.op = "stow_fuel" /\ last.self.location # 0
        /\ last.arg <= last.self.fuel) =>
        /\ last.res.tag = "Ok"
        /\ last.res.train.fuel = last.self.fuel - last.arg
        /\ last.res.train.location = last.self.location
        /\ last.self.location \in DOMAIN last.res.train.stashes
        /\ StashAt(last.res.train, last.self.location)
               = StashAt(last.self, last.self.location) + last.arg
        /\ OtherStashesUnchanged(last.self, last.res.train, last.self.location)

\* C4: stow_fuel(amount) with location != 0 and amount > fuel returns the
\* InsufficientFuelToStow error as a value: no new state, no abort.
C4_StowTooMuchIsError ==
    (last.op = "stow_fuel" /\ last.self.location # 0
        /\ last.arg > last.self.fuel) =>
        /\ last.res = Err(last.self, InsufficientFuelToStow)
        /\ state = last.self
        /\ pc # "panicked"

\* C5: stow_fuel(amount) at location 0 fails with StowAtDepot for every
\* amount, and no stash entry is created.
C5_StowAtDepotFails ==
    (last.op = "stow_fuel" /\ last.self.location = 0) =>
        /\ last.res = Err(last.self, StowAtDepot)
        /\ state = last.self
        /\ 0 \notin DOMAIN state.stashes

\* a stow at the depot of more than the tank holds
C5_Witness ==
    /\ last.op = "stow_fuel"
    /\ last.self.location = 0
    /\ last.arg > last.self.fuel
    /\ last.res.tag = "Err"

\* C16: in every state reachable by successful travel and stow_fuel calls
\* there is no stash entry at location 0, so a travel that arrives at
\* location 0 never picks up a stash there; every successful travel that
\* arrives at location 0, travel(0) at the depot included, leaves fuel
\* exactly equal to capacity.
C16_NoStashAtDepot ==
    /\ 0 \notin DOMAIN state.stashes
    /\ (last.op = "travel" /\ last.res.tag = "Ok"
           /\ last.res.train.location = 0) =>
           /\ 0 \notin DOMAIN last.self.stashes
           /\ last.res.train.fuel = last.res.train.spec.capacity
           /\ last.res.train.stashes = last.self.stashes

\* a return to the depot with an empty tank while fuel is stashed up the line
C16_Witness ==
    /\ last.op = "travel"
    /\ last.res.tag = "Ok"
    /\ last.arg < 0
    /\ last.res.train.location = 0
    /\ AsIsize(last.self.fuel) + last.arg = 0
    /\ last.self.stashes # EmptyStashes
    /\ state.fuel = state.spec.capacity

\* the fuel aboard and along the line: tank plus every stash
RECURSIVE SumStashes(_)
SumStashes(stashes) ==
    IF DOMAIN stashes = {} THEN 0
    ELSE LET l == CHOOSE l \in DOMAIN stashes : TRUE IN
         stashes[l] + SumStashes(StashesRemove(stashes, l))

TotalFuel(train) == train.fuel + SumStashes(train.stashes)

\* C18: fuel is conserved outside the depot. Every successful stow_fuel
\* leaves tank fuel plus the sum of all stashed amounts unchanged, and every
\* successful travel(d) that arrives at a location other than 0 decreases
\* that total by exactly |d|.
C18_FuelConserved ==
    /\ (last.op = "stow_fuel" /\ last.res.tag = "Ok") =>
           TotalFuel(last.res.train) = TotalFuel(last.self)
    /\ (last.op = "travel" /\ last.res.tag = "Ok"
           /\ last.res.train.location # 0) =>
           TotalFuel(last.res.train) = TotalFuel(last.self) - Abs(last.arg)

-----------------------------------------------------------------------------
(* Properties of simulate *)

Returned == pc = "returned"

Front(seq) == SubSeq(seq, 1, Len(seq) - 1)

\* C6: simulate terminates for every strategy; it asks the strategy for at
\* most 20 decisions and the command trace has at most 20 commands.
\* While simulate runs it can always take a step, each step either ends the
\* run or starts the next of at most 20 iterations, and a run that has ended
\* takes no step: a run has at most 21 steps.
C6_SimulateTerminates ==
    /\ [](/\ iter <= 20
          /\ strategy.calls <= 20
          /\ Len(commands) <= 20
          /\ Len(summary.commands) <= 20)
    /\ [][/\ pc = "running"
          /\ pc' = "running" => iter' = iter + 1]_vars

\* a strategy that was asked 20 times, never said None and never got there
C6_Witness ==
    /\ Returned
    /\ summary.result = IterationCapExceeded
    /\ strategy.calls = 20
    /\ Len(summary.commands) = 20
    /\ ~ meets_goal(summary.final_state, summary.goal)

\* C7: whenever the summary's result is the iteration-cap failure, the
\* summary's final_state does not meet the goal.
C7_CapOnlyWhenGoalUnmet ==
    (Returned /\ summary.result = IterationCapExceeded) =>
        ~ meets_goal(summary.final_state, summary.goal)

\* C8: whenever simulate returns Ok, final_state.location is the goal's
\* destination, every command of the trace applies without error from the
\* initial state, and the trace is the sequence of commands the strategy
\* returned, in order.
C8_OkRun ==
    (Returned /\ summary.result = "Ok") =>
        LET replay == ReplayFrom(TrainFrom(summary.goal), summary.commands,
                                 <<>>)
        IN
        /\ summary.final_state.location = summary.goal.destination
        /\ replay.tag = "Ok"
        /\ replay.states[Len(replay.states)] = summary.final_state
        /\ summary.commands = strategy.returned

\* the documented scenario: five commands, Ok at the destination
C8_Witness ==
    /\ Returned
    /\ summary.result = "Ok"
    /\ summary.commands
         = <<Travel(2), StowFuel(1), Travel(0 - 2), Travel(2), Travel(4)>>
    /\ summary.final_state.location = 6
    /\ fuel_used(summary) = [tag |-> "Ok", val |-> 10]

\* C9: for every successful run the states that SimulationSummary::states
\* rebuilds equal the live history, and the driver's assertion never fails.
C9_StatesEqualHistory ==
    /\ pc # "assert_failed"
    /\ (Returned /\ summary.result = "Ok") =>
           /\ summary.states = states
           /\ Len(summary.states) = Len(summary.commands) + 1
           /\ summary.states[1] = TrainFrom(summary.goal)

\* a successful run that stowed and picked up on the way
C9_Witness ==
    /\ Returned
    /\ summary.result = "Ok"
    /\ Len(states) >= 6
    /\ \E i \in 1 .. Len(states) : states[i].stashes # EmptyStashes
    /\ summary.states = states

\* C10: when a command fails in update, simulate halts at once with that
\* failure: no further decision is requested, final_state is the unchanged
\* state the failing command was applied to, and the failing command is the
\* last element of the trace.
C10_HaltsOnFailure ==
    (Returned /\ summary.result \in TransitionErrors) =>
        LET n == Len(summary.commands) IN
        /\ n >= 1
        /\ update(summary.final_state, summary.commands[n])
             = Err(summary.final_state, summary.result)
        /\ summary.final_state = states[Len(states)]
        /\ summary.final_state = state
        /\ LET before == ReplayFrom(TrainFrom(summary.goal),
                                    Front(summary.commands), <<>>)
           IN /\ before.tag = "Ok"
              /\ before.states[n] = summary.final_state
        /\ strategy.returned = summary.commands
        /\ strategy.calls = n

\* a run that failed on a later command, after some had been applied
C10_Witness ==
    /\ Returned
    /\ summary.result = FuelExhausted
    /\ Len(summary.commands) >= 3
    /\ summary.final_state.location # 0

\* the strategy has answered None: it was asked once more than it answered
\* with a command
SaidNone == strategy.calls > Len(strategy.returned)

\* C11: when the strategy returns None while the goal is unmet, simulate
\* returns the StrategyExhausted failure; final_state is the current state
\* and the trace is exactly the commands applied so far, each of which
\* applied without error. A strategy that returns None on its first call
\* yields an empty trace and a final_state equal to the initial train state.
C11_StrategyExhausted ==
    /\ SaidNone => (Returned /\ summary.result = StrategyExhausted)
    /\ (Returned /\ summary.result = StrategyExhausted) =>
           LET replay == ReplayFrom(TrainFrom(summary.goal),
                                    summary.commands, <<>>)
           IN
           /\ SaidNone
           /\ ~ meets_goal(summary.final_state, summary.goal)
           /\ summary.final_state = state
           /\ summary.final_state = states[Len(states)]
           /\ summary.commands = commands
           /\ summary.commands = strategy.returned
           /\ strategy.calls = Len(summary.commands) + 1
           /\ replay.tag = "Ok"
           /\ replay.states[Len(replay.states)] = summary.final_state
           /\ strategy.calls = 1 =>
                  /\ summary.commands = <<>>
                  /\ summary.final_state = TrainFrom(summary.goal)

\* the strategy gave up away from the depot, after stowing fuel
C11_Witness ==
    /\ Returned
    /\ summary.result = StrategyExhausted
    /\ Len(summary.commands) >= 2
    /\ summary.final_state.location # 0
    /\ summary.final_state.stashes # EmptyStashes

\* the sum of |d| over the Travel(d) of a trace, as a number
RECURSIVE TravelledDistance(_)
TravelledDistance(cmds) ==
    IF cmds = <<>> THEN 0
    ELSE (IF Head(cmds).kind = "Travel" THEN Abs(Head(cmds).arg) ELSE 0)
         + TravelledDistance(Tail(cmds))

IsTravel(c) == c.kind = "Travel"

\* C12: fuel_used() of a summary equals the sum of |d| over every Travel(d)
\* in its command trace, and the StowFuel commands of the trace do not
\* change it: the trace without them, and the trace with one more of them,
\* give the same value.
C12_FuelUsed ==
    Returned =>
        /\ fuel_used(summary)
             = [tag |-> "Ok", val |-> TravelledDistance(summary.commands)]
        /\ fuel_used([summary EXCEPT
                          !.commands = SelectSeq(summary.commands, IsTravel)])
             = fuel_used(summary)
        /\ fuel_used([summary EXCEPT
                          !.commands = <<StowFuel(1)>> \o summary.commands])
             = fuel_used(summary)

\* C13: from a state at location L # 0 with fuel f and no stash at L,
\* stow_fuel(n), then travel(d), then travel(-d), where L + d is neither the
\* depot nor a stash location and all three succeed, ends at location L with
\* fuel f - 2|d| and no stash entry at L.
C13_StowPickupRoundTrip ==
    \A n \in Amounts, d \in Distances :
        LET L == state.location
            f == state.fuel
            stowed == stow_fuel(state, n)
            away == travel(stowed.train, d)
            back == travel(away.train, 0 - d)
        IN
        (/\ pc = "running"
         /\ L # 0
         /\ L \notin DOMAIN state.stashes
         /\ L + d # 0
         /\ L + d \notin DOMAIN stowed.train.stashes
         /\ stowed.tag = "Ok"
         /\ away.tag = "Ok"
         /\ back.tag = "Ok")
        => /\ back.train.location = L
           /\ back.train.fuel = f - (2 * Abs(d))
           /\ L \notin DOMAIN back.train.stashes

\* C15: for every summary simulate returns, failed runs included, replaying
\* the summary's command trace from the goal's initial state succeeds at
\* every step and yields commands.len() + 1 states, the last of which
\* equals the summary's final_state.
C15_ReplayEveryRun ==
    Returned =>
        LET replay == SummaryStates(summary) IN
        /\ replay.tag = "Ok"
        /\ Len(replay.states) = Len(summary.commands) + 1
        /\ replay.states[Len(replay.states)] = summary.final_state

\* C17: the driver checks the goal before asking the strategy. Once the
\* current state has location == destination, simulate returns success
\* without requesting or applying another command; in the recorded history
\* exactly the last state meets the goal; a travel that passes over the
\* destination does not meet it.
C17_GoalCheckedFirst ==
    /\ [][(pc = "running" /\ meets_goal(state, goal)) =>
             /\ pc' = "returned"
             /\ summary'.result = "Ok"
             /\ summary'.final_state = state
             /\ strategy' = strategy
             /\ commands' = commands
             /\ state' = state]_vars
    /\ [](\A i \in 1 .. Len(states) :
             meets_goal(states[i], goal) =>
                 (i = Len(states) /\ Returned /\ summary.result = "Ok"))
    /\ []((Returned /\ summary.result = "Ok") =>
             /\ meets_goal(states[Len(states)], goal)
             /\ strategy.calls = Len(summary.commands))
    /\ [](state.location > goal.destination => ~ meets_goal(state, goal))

\* the train before command i of the run, and after its last command
TrainAt(i) == IF i <= Len(states) THEN states[i] ELSE state

\* the trains of the run that no StowFuel command came before
TravelledOnly ==
    {i \in 1 .. Len(states) + 1 :
        \A j \in 1 .. Len(commands) :
            j < i => commands[j].kind = "Travel"}

\* C19: a run cannot succeed without stowing. In every state reached by
\* successful Travel commands only, location + fuel <= capacity, so the
\* location does not exceed the capacity and the goal is not met; every
\* run whose result is Ok has at least one StowFuel in its command trace.
C19_NoSuccessWithoutStow ==
    /\ \A i \in TravelledOnly :
           /\ TrainAt(i).location + TrainAt(i).fuel <= goal.capacity
           /\ TrainAt(i).location <= goal.capacity
           /\ ~ meets_goal(TrainAt(i), goal)
    /\ (Returned /\ summary.result = "Ok") =>
           \E j \in 1 .. Len(summary.commands) :
               summary.commands[j].kind = "StowFuel"

\* travels and no stow: out, back to the depot and out again as far as
\* the tank allows short of emptying it; the strategy then gives up
C19_Witness ==
    /\ Returned
    /\ summary.result = StrategyExhausted
    /\ Len(summary.commands) = 3
    /\ \A j \in 1 .. 3 : summary.commands[j].kind = "Travel"
    /\ states[2].location = 2
    /\ states[3].location = 0
    /\ summary.final_state.location = 4
    /\ summary.final_state.fuel = 1

-----------------------------------------------------------------------------
(* Properties of construction *)

\* C14: GoalSpec::new(capacity, destination) succeeds exactly when
\* destination > capacity and fails for every pair with
\* destination <= capacity, equality included; the train made from a goal
\* is at the depot with a full tank and does not meet that goal.
C14_TrivialGoalRefused ==
    pc # "new" =>
        /\ pc = "running" <=> goal.destination > goal.capacity
        /\ pc = "panicked" <=> goal.destination <= goal.capacity
        /\ pc = "running" =>
               /\ state.spec = goal
               /\ state = TrainFrom(goal)
               /\ ~ meets_goal(state, state.spec)

\* the nearest goal that is accepted
C14_Witness ==
    /\ pc = "running"
    /\ last.op = "new"
    /\ goal.capacity = MaxCapacity
    /\ goal.destination = goal.capacity + 1
    /\ state.fuel = goal.capacity

====
